---- MODULE Spec2Model ----
(***************************************************************************)
(* linker: the hardlink deployment engine (core.py, create_hardlink) and   *)
(* the navigation/selection state machine of the browser (tui_browser.py,  *)
(* LinkerTUI), over an explicit model of the filesystem.                   *)
(*                                                                         *)
(* The filesystem is a function from paths to nodes.  A path is a sequence *)
(* of names from the root, a name is its pathlib (stem, suffix) pair, a    *)
(* node is a kind ("dir", "file", or "symlink" for a dangling symbolic     *)
(* link) and an inode number.  Two paths are hardlinks of one another when *)
(* they carry the same inode number.  The program never writes file data,  *)
(* so the contents of a file are a function of its inode.                  *)
(*                                                                         *)
(* Environment: one volume, a caller that may read and write every path,   *)
(* so a system call fails only for a reason visible in the tree (missing   *)
(* or existing path, wrong kind, non-empty directory, path too long).      *)
(* What another process does between two steps of a call is an explicit    *)
(* input of the call (env.race), as is the outcome of the permission       *)
(* policy lookup (env.perms).                                              *)
(***************************************************************************)
EXTENDS Integers, Sequences, FiniteSets, TLC

VARIABLES
    fs,            \* the filesystem: path -> [kind, ino]
    next_ino,      \* the next unused inode number
    current_dir,   \* LinkerTUI.current_dir
    items,         \* LinkerTUI.items: the listed entries (paths), in listing order
    cursor_index,  \* LinkerTUI.cursor_index
    selected,      \* LinkerTUI.selected: set of resolved paths
    tasks,         \* load_directory tasks created by asyncio.create_task, not yet run
    table_cursor,  \* the row of DataTable.cursor_coordinate
    modal,         \* the TextInputModalScreen on the screen stack, if any
    commands,      \* how many commands the session has handled so far
    last           \* the last operation, its inputs and its outcome

vars == <<fs, next_ino, current_dir, items, cursor_index, selected, tasks, table_cursor,
          modal, commands, last>>
tui_vars == <<current_dir, items, cursor_index, selected, tasks, table_cursor, modal, commands>>

-----------------------------------------------------------------------------
(* Bounds of the model and constants of the program.                       *)

\* The longest path (in components) the volume accepts: mkdir and link fail
\* beyond it (ENAMETOOLONG).
MaxPathLen == 6
\* core.py: "if counter > 999" in both rename loops.
MaxAttempts == 999

\* A session: the commands it handles, the paths selected at once.
MaxCommands == 3
MaxSelected == 2

-----------------------------------------------------------------------------
(* Paths and names (pathlib).                                              *)

Root == <<>>

\* name=None of create_hardlink; also the name of the root.
NoName == [stem |-> "", suffix |-> ""]

Nm(stem, suffix) == [stem |-> stem, suffix |-> suffix]

Parent(p) == IF p = Root THEN Root ELSE SubSeq(p, 1, Len(p) - 1)

PathName(p) == IF p = Root THEN NoName ELSE p[Len(p)]

\* d / n
Join(d, n) == IF n = NoName THEN d ELSE Append(d, n)

IsUnder(p, d) == Len(d) <= Len(p) /\ SubSeq(p, 1, Len(d)) = d

\* pathlib.Path(root).relative_to(source)
RelativeTo(p, d) == SubSeq(p, Len(d) + 1, Len(p))

\* f"{stem} ({counter}){suffix}"
FormatName(stem, counter, suffix) ==
    [stem |-> stem \o " (" \o ToString(counter) \o ")", suffix |-> suffix]

-----------------------------------------------------------------------------
(* Filesystem queries (pathlib.Path.exists / is_dir / is_file / is_symlink, *)
(* os.stat, os.scandir).                                                   *)

lexists(f, p) == p \in DOMAIN f

\* exists() follows symbolic links: a dangling link does not exist.
exists(f, p) == lexists(f, p) /\ f[p].kind # "symlink"

is_dir(f, p) == lexists(f, p) /\ f[p].kind = "dir"

is_file(f, p) == lexists(f, p) /\ f[p].kind = "file"

is_symlink(f, p) == lexists(f, p) /\ f[p].kind = "symlink"

Children(f, d) == {p \in DOMAIN f : p # Root /\ Parent(p) = d}

SubTree(f, d) == {p \in DOMAIN f : IsUnder(p, d)}

\* st_nlink of a non-directory: the number of paths carrying its inode.
st_nlink(f, p) == Cardinality({q \in DOMAIN f : f[q].ino = f[p].ino})

Without(f, gone) == [p \in DOMAIN f \ gone |-> f[p]]

\* All orders in which a directory scan may return a set of entries.
Orders(S) ==
    {s \in [1..Cardinality(S) -> S] : \A i, j \in 1..Cardinality(S) : s[i] = s[j] => i = j}

-----------------------------------------------------------------------------
(* System calls.  Each takes and returns [ok, fs, next]: ok is FALSE when  *)
(* the call raises OSError, and then fs is as the failed call left it.     *)

Sys(f, n) == [ok |-> TRUE, fs |-> f, next |-> n]

Failed(s) == [s EXCEPT !.ok = FALSE]

\* A name of 300 characters: longer than a volume takes for one component.
LongName == [stem |-> "long", suffix |-> ""]

\* The path, or one of its components, is longer than the volume takes: a
\* system call on it fails with ENAMETOOLONG, which Path.exists() does not
\* turn into False but raises.
TooLong(p) == Len(p) > MaxPathLen \/ \E i \in 1..Len(p) : p[i] = LongName

\* pathlib.Path.unlink
Unlink(s, p) ==
    IF lexists(s.fs, p) /\ s.fs[p].kind # "dir"
    THEN [s EXCEPT !.ok = TRUE, !.fs = Without(s.fs, {p})]
    ELSE Failed(s)

\* shutil.rmtree
Rmtree(s, p) ==
    IF is_dir(s.fs, p) /\ p # Root
    THEN [s EXCEPT !.ok = TRUE, !.fs = Without(s.fs, SubTree(s.fs, p))]
    ELSE Failed(s)

\* pathlib.Path.rmdir
Rmdir(s, p) ==
    IF is_dir(s.fs, p) /\ p # Root /\ Children(s.fs, p) = {}
    THEN [s EXCEPT !.ok = TRUE, !.fs = Without(s.fs, {p})]
    ELSE Failed(s)

\* os.mkdir
Mkdir(s, p) ==
    IF ~lexists(s.fs, p) /\ is_dir(s.fs, Parent(p)) /\ Len(p) <= MaxPathLen
    THEN [ok |-> TRUE,
          fs |-> (p :> [kind |-> "dir", ino |-> s.next]) @@ s.fs,
          next |-> s.next + 1]
    ELSE Failed(s)

\* pathlib.Path.mkdir(parents=True, exist_ok=True)
RECURSIVE MkdirParents(_, _)
MkdirParents(s, p) ==
    IF lexists(s.fs, p)
    THEN (IF is_dir(s.fs, p) THEN [s EXCEPT !.ok = TRUE] ELSE Failed(s))
    ELSE IF Len(p) > MaxPathLen
    THEN Failed(s)
    ELSE IF lexists(s.fs, Parent(p)) /\ ~is_symlink(s.fs, Parent(p))
    THEN Mkdir(s, p)
    ELSE LET up == MkdirParents(s, Parent(p))
         IN  IF up.ok THEN Mkdir(up, p) ELSE up

\* os.link(src, dst)
Link(s, src, dst) ==
    IF /\ lexists(s.fs, src) /\ s.fs[src].kind # "dir"
       /\ ~lexists(s.fs, dst)
       /\ is_dir(s.fs, Parent(dst))
       /\ Len(dst) <= MaxPathLen
    THEN [s EXCEPT !.ok = TRUE, !.fs = (dst :> s.fs[src]) @@ s.fs]
    ELSE Failed(s)

\* pathlib.Path.rename(new_path) of a directory
RenamePath(s, old, new) ==
    IF /\ is_dir(s.fs, old) /\ old # Root
       /\ ~IsUnder(new, old)
       /\ is_dir(s.fs, Parent(new))
       /\ (lexists(s.fs, new) => is_dir(s.fs, new) /\ Children(s.fs, new) = {})
       /\ \A q \in SubTree(s.fs, old) : Len(q) - Len(old) + Len(new) <= MaxPathLen
    THEN LET moved == SubTree(s.fs, old)
             to(q) == new \o RelativeTo(q, old)
             kept == Without(s.fs, moved \cup {new})
         IN  [s EXCEPT !.ok = TRUE,
                       !.fs = [q \in {to(m) : m \in moved} |->
                                  s.fs[CHOOSE m \in moved : to(m) = q]] @@ kept]
    ELSE Failed(s)

-----------------------------------------------------------------------------
(* permissions_helper.py.  Ownership and mode are not part of a node; what *)
(* the engine can observe of the policy lookup is whether it returns no    *)
(* rule ("none"), returns a rule that set_file_ownership_and_permissions   *)
(* applies or fails to apply, swallowing the error ("applied",             *)
(* "apply_failed"), or raises ("raises").                                  *)

PermOutcomes == {"none", "applied", "apply_failed", "raises"}

\* get_app_permissions_for_path followed by set_file_ownership_and_permissions:
\* TRUE when the pair returns, FALSE when an exception leaves it.
PermsReturn(env) == env.perms # "raises"

\* No interference and no policy document.
Quiet == [race |-> <<>>, perms |-> "none"]

-----------------------------------------------------------------------------
(* core.py, create_hardlink.                                               *)

Strategies == {"fail", "skip", "overwrite", "rename", "other"}

\* What a call leaves: the value returned (ok), or raised = TRUE when an
\* exception leaves create_hardlink instead, and the tree.
Result(ok, s) == [ok |-> ok, raised |-> FALSE, fs |-> s.fs, next |-> s.next]

Raised(s) == [ok |-> FALSE, raised |-> TRUE, fs |-> s.fs, next |-> s.next]

\* One iteration of the file branch's "while link_path.exists() or
\* link_path.is_symlink()" loop.  l.st is "loop" while the loop condition is
\* to be tested again, "found" once it was false, "abort" at the return False.
FileRenameStep(f, destination_dir, stem, suffix, l) ==
    IF l.st # "loop" THEN l
    ELSE IF ~(exists(f, l.link_path) \/ is_symlink(f, l.link_path))
    THEN [l EXCEPT !.st = "found"]
    ELSE LET link_name == FormatName(stem, l.counter, suffix)
             counter == l.counter + 1
         IN  [st |-> IF counter > MaxAttempts THEN "abort" ELSE "loop",
              link_path |-> Join(destination_dir, link_name),
              counter |-> counter]

\* n iterations of the loop, in order.
RECURSIVE FileRenameRun(_, _, _, _, _, _)
FileRenameRun(f, destination_dir, stem, suffix, l, n) ==
    IF n = 0 THEN l
    ELSE IF n = 1 THEN FileRenameStep(f, destination_dir, stem, suffix, l)
    ELSE LET h == n \div 2
             m == FileRenameRun(f, destination_dir, stem, suffix, l, h)
         IN  IF m.st # "loop" THEN m
             ELSE FileRenameRun(f, destination_dir, stem, suffix, m, n - h)

\* The loop of lines 163-172 from counter = 1.  It ends within
\* MaxAttempts + 1 tests of its condition: the MaxAttempts-th iteration returns.
FileRenameLoop(f, destination_dir, link_path) ==
    FileRenameRun(f, destination_dir, PathName(link_path).stem, PathName(link_path).suffix,
                  [st |-> "loop", link_path |-> link_path, counter |-> 1],
                  MaxAttempts + 1)

\* Lines 181-194: os.link, then the permission rule.
LinkFileSource(s, source, link_path, env) ==
    LET l == Link(s, source, link_path)
    IN  IF ~l.ok THEN Result(FALSE, l)
        ELSE Result(PermsReturn(env), l)

\* A 'fail' that leaves the tree alone but returns True.
FailThatReportsSuccess(s, source, link_path, env) == Result(TRUE, s)

\* Lines 142-144: 'fail' at an existing link path.
FileConflictFail(s, source, link_path, env) == Result(FALSE, s)

\* Lines 145-147: 'skip' at an existing link path.
FileConflictSkip(s, source, link_path, env) == Result(TRUE, s)

\* Lines 148-160: 'overwrite' at an existing link path, then the link.
FileConflictOverwrite(s, source, link_path, env) ==
    LET r == IF is_dir(s.fs, link_path) /\ ~is_symlink(s.fs, link_path)
             THEN Rmtree(s, link_path)
             ELSE Unlink(s, link_path)
    IN  IF ~r.ok THEN Result(FALSE, r)
        ELSE LinkFileSource(r, source, link_path, env)

\* Lines 161-173: 'rename' at an existing link path, then the link.
FileConflictRename(s, source, destination_dir, link_path, env) ==
    LET l == FileRenameLoop(s.fs, destination_dir, link_path)
    IN  IF l.st = "abort" THEN Result(FALSE, s)
        ELSE LinkFileSource(s, source, l.link_path, env)

\* Lines 138-194: the source is a file.
FileSource(s, source, destination_dir, link_path, conflict_strategy, env) ==
    IF TooLong(link_path)
    THEN \* link_path.exists() of line 140 raises, outside any try
         Raised(s)
    ELSE IF exists(s.fs, link_path) \/ is_symlink(s.fs, link_path)
    THEN CASE conflict_strategy = "fail" -> FileConflictFail(s, source, link_path, env)
           [] conflict_strategy = "skip" -> FileConflictSkip(s, source, link_path, env)
           [] conflict_strategy = "overwrite" ->
                FileConflictOverwrite(s, source, link_path, env)
           [] conflict_strategy = "rename" ->
                FileConflictRename(s, source, destination_dir, link_path, env)
           [] OTHER -> Result(FALSE, s)
    ELSE LinkFileSource(s, source, link_path, env)

\* One iteration of the walk's "while dest_file.exists() or
\* dest_file.is_symlink()" loop (lines 117-124).  Its "continue" continues
\* the while loop itself: past MaxAttempts the loop clears all_success and
\* goes on probing.
WalkRenameStep(f, dest_root, stem, suffix, l) ==
    IF l.st # "loop" THEN l
    ELSE IF ~(exists(f, l.dest_file) \/ is_symlink(f, l.dest_file))
    THEN [l EXCEPT !.st = "found"]
    ELSE LET new_name == FormatName(stem, l.counter, suffix)
             counter == l.counter + 1
         IN  [st |-> "loop",
              dest_file |-> Join(dest_root, new_name),
              counter |-> counter,
              all_success |-> IF counter > MaxAttempts THEN FALSE ELSE l.all_success]

RECURSIVE WalkRenameRun(_, _, _, _, _, _)
WalkRenameRun(f, dest_root, stem, suffix, l, n) ==
    IF n = 0 THEN l
    ELSE IF n = 1 THEN WalkRenameStep(f, dest_root, stem, suffix, l)
    ELSE LET h == n \div 2
             m == WalkRenameRun(f, dest_root, stem, suffix, l, h)
         IN  IF m.st # "loop" THEN m
             ELSE WalkRenameRun(f, dest_root, stem, suffix, m, n - h)

\* The loop from counter = 1.  Every iteration but the first follows the
\* test of a different existing path, so the loop ends within as many
\* tests as the tree has paths, plus one.
WalkRenameLoop(f, dest_root, dest_file, all_success) ==
    WalkRenameRun(f, dest_root, PathName(dest_file).stem, PathName(dest_file).suffix,
                  [st |-> "loop", dest_file |-> dest_file, counter |-> 1,
                   all_success |-> all_success],
                  Cardinality(DOMAIN f) + 1)

\* The state of a walk: the filesystem, the inode counter, all_success, and
\* raised once an exception has left the loop.
Walk(s, all_success) ==
    [fs |-> s.fs, next |-> s.next, all_success |-> all_success, raised |-> FALSE]

\* Lines 125-134: os.link, then the permission rule, any exception caught.
LinkWalkedFile(w, src_file, dest_file, env) ==
    LET l == Link(Sys(w.fs, w.next), src_file, dest_file)
    IN  Walk(l, w.all_success /\ l.ok /\ PermsReturn(env))

\* Lines 92-134: one file of the directory being visited.
WalkFile(w, src_file, dest_root, conflict_strategy, env) ==
    LET dest_file == Join(dest_root, PathName(src_file))
        s == Sys(w.fs, w.next)
    IN  IF TooLong(dest_file)
        THEN \* dest_file.exists() of line 95 raises, outside any try
             [w EXCEPT !.raised = TRUE]
        ELSE IF exists(w.fs, dest_file) \/ is_symlink(w.fs, dest_file)
        THEN CASE conflict_strategy = "fail" -> [w EXCEPT !.all_success = FALSE]
               [] conflict_strategy = "skip" -> w
               [] conflict_strategy = "overwrite" ->
                    LET r == IF is_dir(w.fs, dest_file) /\ ~is_symlink(w.fs, dest_file)
                             THEN Rmtree(s, dest_file)
                             ELSE Unlink(s, dest_file)
                    IN  IF ~r.ok THEN Walk(r, FALSE)
                        ELSE LinkWalkedFile(Walk(r, w.all_success), src_file, dest_file, env)
               [] conflict_strategy = "rename" ->
                    LET l == WalkRenameLoop(w.fs, dest_root, dest_file, w.all_success)
                    IN  LinkWalkedFile([w EXCEPT !.all_success = l.all_success],
                                       src_file, l.dest_file, env)
               [] OTHER -> LinkWalkedFile(w, src_file, dest_file, env)
        ELSE LinkWalkedFile(w, src_file, dest_file, env)

\* Lines 91-134: "for file in files", files in the order the scan gave them.
RECURSIVE WalkFiles(_, _, _, _, _)
WalkFiles(w, files, dest_root, conflict_strategy, env) ==
    IF files = <<>> \/ w.raised THEN w
    ELSE WalkFiles(WalkFile(w, Head(files), dest_root, conflict_strategy, env),
                   Tail(files), dest_root, conflict_strategy, env)

\* Lines 78-134: the body of "for root, dirs, files in os.walk(source)".
WalkBody(w, root, files, source, target_dir_path, conflict_strategy, env) ==
    LET rel_root == RelativeTo(root, source)
        dest_root == target_dir_path \o rel_root
        m == MkdirParents(Sys(w.fs, w.next), dest_root)
    IN  IF ~m.ok \/ ~PermsReturn(env)
        THEN Walk(m, FALSE)
        ELSE WalkFiles(Walk(m, w.all_success), files, dest_root, conflict_strategy, env)

\* The walk has descended as deep as the interpreter and the volume allow:
\* the mirror of root would lie beyond the longest path.
TooDeep(root, source, target_dir_path) ==
    Len(target_dir_path) + Len(root) - Len(source) > MaxPathLen

\* os.walk(source), top-down, not following links: the directories still to
\* visit are a stack; a directory is scanned when it is popped, its entries
\* come in any order, and its sub-directories are visited in that order
\* before the rest of the stack.  A directory that cannot be scanned is
\* passed over.  At the depth limit the mkdir of the body fails with an
\* OSError the body catches, or the recursion of os.walk (a recursive
\* generator before Python 3.12) raises RecursionError, which nothing in
\* create_hardlink catches.  The set of final walk states, one per order of
\* the scans and per way of meeting the limit.
RECURSIVE OsWalk(_, _, _, _, _, _)
OsWalk(stack, w, source, target_dir_path, conflict_strategy, env) ==
    IF stack = <<>> \/ w.raised THEN {w}
    ELSE LET top == Head(stack)
             dirs == {p \in Children(w.fs, top) : is_dir(w.fs, p)}
             nondirs == Children(w.fs, top) \ dirs
         IN  IF ~is_dir(w.fs, top)
             THEN OsWalk(Tail(stack), w, source, target_dir_path, conflict_strategy, env)
             ELSE IF TooDeep(top, source, target_dir_path)
             THEN {[w EXCEPT !.raised = TRUE]}
                  \cup OsWalk(Tail(stack),
                              WalkBody(w, top, <<>>, source, target_dir_path,
                                       conflict_strategy, env),
                              source, target_dir_path, conflict_strategy, env)
             ELSE UNION {OsWalk(o[1] \o Tail(stack),
                                WalkBody(w, top, o[2], source, target_dir_path,
                                         conflict_strategy, env),
                                source, target_dir_path, conflict_strategy, env)
                         : o \in Orders(dirs) \X Orders(nondirs)}

\* A top-level conflict handled with the strategy as it was given.
DirStrategyAsGiven(conflict_strategy) == conflict_strategy

\* Lines 50-53: 'rename' is not supported for the top-level directory and
\* is treated as 'fail'.
EffectiveDirStrategy(conflict_strategy) ==
    IF conflict_strategy = "rename" THEN "fail" ELSE conflict_strategy

\* Lines 45-135: the source is a directory.  env.race is what another
\* process creates between the conflict check and the walk.
DirSource(s, source, target_dir_path, conflict_strategy, env) ==
    LET effective_dir_conflict_strategy == EffectiveDirStrategy(conflict_strategy)
        walk(r) == {IF w.raised THEN Raised(w) ELSE Result(w.all_success, w)
                    : w \in OsWalk(<<source>>, Walk([r EXCEPT !.fs = r.fs @@ env.race], TRUE),
                                   source, target_dir_path, conflict_strategy, env)}
    IN  IF TooLong(target_dir_path)
        THEN \* target_dir_path.exists() of line 48 raises, outside any try
             {Raised(s)}
        ELSE IF exists(s.fs, target_dir_path)
        THEN CASE effective_dir_conflict_strategy = "fail" -> {Result(FALSE, s)}
               [] effective_dir_conflict_strategy = "skip" -> {Result(TRUE, s)}
               [] effective_dir_conflict_strategy = "overwrite" ->
                    LET r == IF is_symlink(s.fs, target_dir_path) THEN Unlink(s, target_dir_path)
                             ELSE IF is_dir(s.fs, target_dir_path) THEN Rmtree(s, target_dir_path)
                             ELSE Unlink(s, target_dir_path)
                    IN  IF ~r.ok THEN {Result(FALSE, r)} ELSE walk(r)
               [] OTHER -> walk(s)
        ELSE walk(s)

\* create_hardlink(source, destination_dir, name, conflict_strategy): the set
\* of possible outcomes [ok, fs, next], ok being the value returned.
create_hardlink(s, source, destination_dir, name, conflict_strategy, env) ==
    IF TooLong(source)
    THEN \* source.exists() of line 33 raises
         {Raised(s)}
    ELSE IF ~exists(s.fs, source) THEN {Result(FALSE, s)}
    ELSE IF TooLong(destination_dir)
    THEN \* destination_dir.is_dir() of line 37 raises
         {Raised(s)}
    ELSE IF ~is_dir(s.fs, destination_dir) THEN {Result(FALSE, s)}
    ELSE LET link_name == IF name # NoName THEN name ELSE PathName(source)
             link_path == Join(destination_dir, link_name)
         IN  IF is_dir(s.fs, source)
             THEN DirSource(s, source, link_path, conflict_strategy, env)
             ELSE IF is_file(s.fs, source)
             THEN {FileSource(s, source, destination_dir, link_path, conflict_strategy, env)}
             ELSE {Result(FALSE, s)}

-----------------------------------------------------------------------------
(* Trees the specifications start from.                                    *)

File(i) == [kind |-> "file", ino |-> i]
Dir(i) == [kind |-> "dir", ino |-> i]
Symlink(i) == [kind |-> "symlink", ino |-> i]

n_f == Nm("f", ".txt")
n_x == Nm("x", ".txt")
n_y == Nm("y", ".txt")
n_z == Nm("z", "")
n_A == Nm("A", "")
n_sub == Nm("sub", "")
n_e == Nm("e", "")
n_d == Nm("d", "")
n_ghost == Nm("ghost", "")

\* /f.txt, /A/{x.txt, sub/y.txt, e/} and the directory /d.
SourceTree ==
    (Root :> Dir(1)) @@ (<<n_f>> :> File(10)) @@ (<<n_A>> :> Dir(2))
    @@ (<<n_A, n_x>> :> File(11)) @@ (<<n_A, n_sub>> :> Dir(3))
    @@ (<<n_A, n_sub, n_y>> :> File(12)) @@ (<<n_A, n_e>> :> Dir(4))
    @@ (<<n_d>> :> Dir(5))

\* What /d may hold at the name f.txt (a file, a second link of /f.txt, a
\* dangling link, a directory holding a file or a chain of directories) ...
SlotF ==
    { <<>>,
      (<<n_d, n_f>> :> File(20)),
      (<<n_d, n_f>> :> File(20)) @@ (<<n_d, FormatName("f", 1, ".txt")>> :> File(21)),
      (<<n_d, n_f>> :> File(10)),
      (<<n_d, n_f>> :> Symlink(22)),
      (<<n_d, n_f>> :> Dir(6)) @@ (<<n_d, n_f, n_z>> :> File(23)),
      (<<n_d, n_f>> :> Dir(6)) @@ (<<n_d, n_f, n_z>> :> Dir(8))
          @@ (<<n_d, n_f, n_z, n_z>> :> Dir(9)) }

\* ... and at the name A.
SlotA ==
    { <<>>,
      (<<n_d, n_A>> :> Dir(7)) @@ (<<n_d, n_A, n_x>> :> File(24)),
      (<<n_d, n_A>> :> File(25)),
      (<<n_d, n_A>> :> Symlink(26)) }

EngineTrees == {a @@ b @@ SourceTree : a \in SlotF, b \in SlotA}

FirstFreeIno == 100

Idle == [op |-> "init"]

NoModal == [kind |-> "none", old_path |-> Root]

TuiIdle ==
    /\ current_dir = Root
    /\ items = <<>>
    /\ cursor_index = 0
    /\ selected = {}
    /\ tasks = <<>>
    /\ table_cursor = 0
    /\ modal = NoModal
    /\ commands = 0

-----------------------------------------------------------------------------
(* The engine called once, on any tree, with any arguments.                *)

EngineInit ==
    /\ fs \in EngineTrees
    /\ next_ino = FirstFreeIno
    /\ last = Idle
    /\ TuiIdle

EngineNames == {NoName, n_f, n_A}

\* Paths that are not in the tree: a short one, and one longer than the
\* volume takes.
Ghost == <<n_ghost>>
LongGhost == [i \in 1..(MaxPathLen + 1) |-> n_ghost]

\* create_hardlink(source, destination_dir, name, conflict_strategy) with
\* nothing else touching the tree, under any policy document.
CallCreateHardlink ==
    /\ last.op = "init"
    /\ \E source \in (DOMAIN fs \ {Root}) \cup {Ghost, LongGhost},
          destination_dir \in DOMAIN fs \cup {Ghost, LongGhost},
          name \in EngineNames,
          conflict_strategy \in Strategies,
          env \in {[race |-> <<>>, perms |-> o] : o \in PermOutcomes} :
          \E out \in create_hardlink(Sys(fs, next_ino), source, destination_dir, name,
                                     conflict_strategy, env) :
             /\ fs' = out.fs
             /\ next_ino' = out.next
             /\ last' = [op |-> "create_hardlink", source |-> source,
                         destination_dir |-> destination_dir, name |-> name,
                         conflict_strategy |-> conflict_strategy, env |-> env,
                         ok |-> out.ok, raised |-> out.raised, fs0 |-> fs]
    /\ UNCHANGED tui_vars

EngineNext == CallCreateHardlink

SpecEngine == EngineInit /\ [][EngineNext]_vars

-----------------------------------------------------------------------------
(* The engine called once on a crowded destination: the rename loops at    *)
(* and around their limit of MaxAttempts.                                   *)

\* f.txt and "f (1).txt" ... "f (n-1).txt" in directory d, links of one
\* file: n collisions.
Crowd(d, n) ==
    [p \in {Join(d, n_f)} \cup {Join(d, FormatName("f", i, ".txt")) : i \in 1..(n - 1)}
        |-> File(20)]

\* How many collisions the destination may hold.
FewCollisions == 3
CrowdSizes == (1..FewCollisions) \cup ((MaxAttempts - 3)..(MaxAttempts + 1))

\* /f.txt, /A/f.txt and the directory /d.
LimitTree ==
    (Root :> Dir(1)) @@ (<<n_f>> :> File(10)) @@ (<<n_A>> :> Dir(2))
    @@ (<<n_A, n_f>> :> File(11)) @@ (<<n_d>> :> Dir(5))

LimitInit ==
    /\ \E n \in CrowdSizes : fs = Crowd(<<n_d>>, n) @@ LimitTree
    /\ next_ino = FirstFreeIno
    /\ last = Idle
    /\ TuiIdle

\* create_hardlink(/f.txt, /d, None, conflict_strategy): the file branch
\* meets the crowd in /d.
CallOnCrowd ==
    /\ last.op = "init"
    /\ \E conflict_strategy \in Strategies :
          \E out \in create_hardlink(Sys(fs, next_ino), <<n_f>>, <<n_d>>, NoName,
                                     conflict_strategy, Quiet) :
             /\ fs' = out.fs
             /\ next_ino' = out.next
             /\ last' = [op |-> "create_hardlink", source |-> <<n_f>>,
                         destination_dir |-> <<n_d>>, name |-> NoName,
                         conflict_strategy |-> conflict_strategy, env |-> Quiet,
                         ok |-> out.ok, raised |-> out.raised, fs0 |-> fs]
    /\ UNCHANGED tui_vars

\* create_hardlink(/A, /d, name, conflict_strategy), /d/name absent when the
\* call tests it, while another process fills /d/name with a crowd before
\* the walk reaches /A/f.txt.
CallRaced ==
    /\ last.op = "init"
    /\ \E conflict_strategy \in Strategies, n \in CrowdSizes, name \in {NoName, n_e} :
          LET target == Join(<<n_d>>, IF name # NoName THEN name ELSE n_A)
              env == [race |-> (target :> Dir(90)) @@ Crowd(target, n), perms |-> "none"]
          IN  \E out \in create_hardlink(Sys(fs, next_ino), <<n_A>>, <<n_d>>, name,
                                         conflict_strategy, env) :
                 /\ fs' = out.fs
                 /\ next_ino' = out.next
                 /\ last' = [op |-> "create_hardlink", source |-> <<n_A>>,
                             destination_dir |-> <<n_d>>, name |-> name,
                             conflict_strategy |-> conflict_strategy, env |-> env,
                             ok |-> out.ok, raised |-> out.raised, fs0 |-> fs]
    /\ UNCHANGED tui_vars

LimitNext ==
    \/ CallOnCrowd
    \/ CallRaced

SpecLimit == LimitInit /\ [][LimitNext]_vars

-----------------------------------------------------------------------------
(* tui_browser.py, LinkerTUI.                                              *)

\* preserve_cursor_index=None
NoIndex == -1

\* The handlers never create a symbolic link and the sessions start from
\* trees without one, so Path.resolve() returns the path it is given.
Resolve(p) == p

\* str.lower() order of the names a session can meet.
NameRank(n) ==
    CASE n = Nm("a", "") -> 1
      [] n = Nm("b", "") -> 2
      [] n = Nm("f (1) (1)", ".txt") -> 3
      [] n = Nm("f (1) (2)", ".txt") -> 4
      [] n = Nm("f (1)", ".txt") -> 5
      [] n = Nm("f (2) (1)", ".txt") -> 6
      [] n = Nm("f (2)", ".txt") -> 7
      [] n = Nm("f (3)", ".txt") -> 8
      [] n = Nm("f", ".txt") -> 9
      [] n = Nm("k", "") -> 10
      [] n = Nm("m", "") -> 11
      [] n = Nm("x (1) (1)", ".txt") -> 12
      [] n = Nm("x (1) (2)", ".txt") -> 13
      [] n = Nm("x (1)", ".txt") -> 14
      [] n = Nm("x (2) (1)", ".txt") -> 15
      [] n = Nm("x (2)", ".txt") -> 16
      [] n = Nm("x (3)", ".txt") -> 17
      [] n = Nm("x", ".txt") -> 18

\* entries.sort(key=lambda p: (not p.is_dir(), p.name.lower()))
SortsBefore(f, p, q) ==
    \/ is_dir(f, p) /\ ~is_dir(f, q)
    \/ is_dir(f, p) = is_dir(f, q) /\ NameRank(PathName(p)) < NameRank(PathName(q))

\* list(self.current_dir.iterdir()), sorted; [] when iterdir raises.
Listing(f, d) ==
    IF ~is_dir(f, d) THEN <<>>
    ELSE LET entries == Children(f, d)
             pos(p) == 1 + Cardinality({q \in entries : SortsBefore(f, q, p)})
         IN  [i \in 1..Cardinality(entries) |-> CHOOSE p \in entries : pos(p) = i]

\* link_index.py, scan_hardlinks: the non-directory entries of the walk of
\* base_path, at any depth; stat() of a dangling link raises and it is skipped.
scan_hardlinks(f, base_path) ==
    IF ~is_dir(f, base_path) THEN {}
    ELSE {p \in SubTree(f, base_path) : p # base_path /\ is_file(f, p)}

\* The entries named n that the walk can meet last: os.walk yields the files
\* of a directory before it descends, and its sub-directories in the order
\* the scan of the directory gives them.
RECURSIVE LastWalked(_, _, _)
LastWalked(f, d, n) ==
    LET below == {c \in Children(f, d) :
                     /\ is_dir(f, c)
                     /\ \E p \in scan_hardlinks(f, c) : PathName(p) = n}
    IN  IF below # {} THEN UNION {LastWalked(f, c, n) : c \in below}
        ELSE {p \in {Join(d, n)} : is_file(f, p)}

\* Line 105: {e.path.name: e for e in hardlinks if not e.is_dir}; of the
\* entries with one name the dict keeps the last.
hardlink_maps(f, base_path) ==
    LET hardlinks == scan_hardlinks(f, base_path)
        names == {PathName(p) : p \in hardlinks}
    IN  {m \in [names -> hardlinks] : \A n \in names : m[n] \in LastWalked(f, base_path, n)}

\* is_hardlink of an entry of the scan: nlink > 1.
is_hardlink(f, p) == st_nlink(f, p) > 1

\* Line 121: self.link_map.
link_map(f, entries, hardlink_map) ==
    [n \in {PathName(entries[i]) : i \in DOMAIN entries} |->
        n \in DOMAIN hardlink_map /\ is_hardlink(f, hardlink_map[n])]

\* Lines 130-151: the Type column of the rows of the table.
Rows(f, entries, hardlink_map) ==
    [i \in DOMAIN entries |->
        LET entry == entries[i]
            is_entry_hardlink == /\ ~is_dir(f, entry)
                                 /\ PathName(entry) \in DOMAIN hardlink_map
                                 /\ is_hardlink(f, hardlink_map[PathName(entry)])
        IN  IF is_dir(f, entry) THEN "Dir"
            ELSE IF is_entry_hardlink THEN "Hardlink" ELSE "File"]

\* Lines 103-151 of load_directory: what a reload of path can show.
Annotations(f, path) ==
    LET entries == Listing(f, Resolve(path))
    IN  {[link_map |-> link_map(f, entries, m), rows |-> Rows(f, entries, m)]
         : m \in hardlink_maps(f, Resolve(path))}

\* A deletion that hands the reload the index the cursor is on.
IndexAfterDeleteSame(cursor, n) == cursor

\* A reload that takes the index it is handed without looking at the listing.
ReloadedCursorUnchecked(preserve_cursor_index, cursor, entries) ==
    IF preserve_cursor_index # NoIndex THEN preserve_cursor_index ELSE cursor

\* A reload that goes back to the first row unless it is handed an index of
\* the listing.
ReloadedCursorReset(preserve_cursor_index, cursor, entries) ==
    IF preserve_cursor_index # NoIndex
       /\ 0 <= preserve_cursor_index /\ preserve_cursor_index < Len(entries)
    THEN preserve_cursor_index
    ELSE 0

\* Lines 155-160 of load_directory: the cursor after a reload.
ReloadedCursor(preserve_cursor_index, cursor, entries) ==
    IF preserve_cursor_index # NoIndex
       /\ 0 <= preserve_cursor_index /\ preserve_cursor_index < Len(entries)
    THEN preserve_cursor_index
    ELSE IF cursor >= Len(entries) \/ cursor < 0 THEN 0
    ELSE cursor

\* What load_directory(path, preserve_cursor_index) assigns.
load_directory(f, path, preserve_cursor_index, cursor) ==
    LET entries == Listing(f, Resolve(path))
    IN  [current_dir |-> Resolve(path),
         items |-> entries,
         cursor_index |-> ReloadedCursor(preserve_cursor_index, cursor, entries)]

\* asyncio.create_task(self.load_directory(path, preserve_cursor_index))
Task(path, preserve_cursor_index) ==
    [path |-> path, preserve_cursor_index |-> preserve_cursor_index]

\* Lines 248-251, 282-285, 291-294: the index handed to the reload after a deletion.
IndexAfterDelete(cursor, n) ==
    IF cursor >= n - 1 /\ n > 1 THEN cursor - 1 ELSE cursor

\* A deletion that empties and removes the directory whatever it holds.
DeleteDirectoryUnchecked(s, entry_to_delete) ==
    [result |-> "deleted", sys |-> Rmtree(s, entry_to_delete)]

\* Lines 253-299 of action_delete_link: the entry is a directory.  The
\* result is "refused" (nothing done), "error" (an OSError, bell) or "deleted".
DeleteDirectory(s, entry_to_delete) ==
    LET items_inside == Children(s.fs, entry_to_delete)
        contains_items == items_inside # {}
        \* item.stat() of a dangling link raises OSError
        unreadable == \E item \in items_inside : is_symlink(s.fs, item)
        only_hardlinks == \A item \in items_inside :
                              \/ is_symlink(s.fs, item)
                              \/ ~is_dir(s.fs, item) /\ st_nlink(s.fs, item) > 1
        emptied == [s EXCEPT !.fs = Without(s.fs, items_inside)]
    IN  IF unreadable
        THEN \* the scan raises at the link, or stops before it at an entry
             \* that is not a hardlink: nothing is removed either way
             [result |-> IF only_hardlinks THEN "error" ELSE "refused", sys |-> s]
        ELSE IF contains_items /\ only_hardlinks
        THEN [result |-> "deleted", sys |-> Rmdir(emptied, entry_to_delete)]
        ELSE IF ~contains_items
        THEN LET r == Rmdir(s, entry_to_delete)
             IN  [result |-> IF r.ok THEN "deleted" ELSE "error", sys |-> r]
        ELSE [result |-> "refused", sys |-> s]

\* A deploy that replaces what is in its way.
DeployStrategyOverwrite == "overwrite"

\* conflict_strategy='rename' of line 319.
DeployStrategy == "rename"

\* Lines 310-326 of action_deploy: the selected paths in the order the set
\* gives them.  The set of [sys, raised, results]: results holds for each
\* path its outcome and the tree before and after its turn; raised is TRUE
\* when an exception left create_hardlink, and the loop with it.
RECURSIVE DeployItems(_, _, _, _)
DeployItems(s, items_to_deploy, destination_dir, results) ==
    IF items_to_deploy = <<>> THEN {[sys |-> s, raised |-> FALSE, results |-> results]}
    ELSE LET source_path == Head(items_to_deploy)
             outs == IF ~exists(s.fs, source_path)
                     THEN {[ok |-> FALSE, raised |-> FALSE, fs |-> s.fs, next |-> s.next,
                            called |-> FALSE]}
                     ELSE {[ok |-> o.ok, raised |-> o.raised, fs |-> o.fs, next |-> o.next,
                            called |-> TRUE]
                           : o \in create_hardlink(s, source_path, destination_dir,
                                                   NoName, DeployStrategy, Quiet)}
             turn(o) == Append(results, [source |-> source_path, ok |-> o.ok,
                                         called |-> o.called, raised |-> o.raised,
                                         before |-> s.fs, after |-> o.fs])
         IN  UNION {IF o.raised
                    THEN {[sys |-> Sys(o.fs, o.next), raised |-> TRUE, results |-> turn(o)]}
                    ELSE DeployItems(Sys(o.fs, o.next), Tail(items_to_deploy),
                                     destination_dir, turn(o))
                    : o \in outs}

\* DataTable keeps cursor_coordinate within its rows.
Clamp(i, rows) == IF rows = 0 \/ i < 0 THEN 0 ELSE IF i > rows - 1 THEN rows - 1 ELSE i

\* The record of a handler: which one ran, how it ended, for a deploy what
\* each selected path came to, for a deletion the entry and the tree before,
\* for a reload what it was asked, the cursor it met and what its rows show.
Did(op, outcome, results) == [op |-> op, outcome |-> outcome, results |-> results]

\* A key reaches a handler of the browser: no modal is up and the session
\* has commands left.
Command == modal.kind = "none" /\ commands < MaxCommands

\* A load_directory task runs: lines 84-166.
RunTask ==
    /\ tasks # <<>>
    /\ LET t == Head(tasks)
           l == load_directory(fs, t.path, t.preserve_cursor_index, cursor_index)
       IN  /\ current_dir' = l.current_dir
           /\ items' = l.items
           /\ cursor_index' = l.cursor_index
           /\ table_cursor' = Clamp(l.cursor_index, Len(l.items))
    /\ tasks' = Tail(tasks)
    /\ \E a \in Annotations(fs, Head(tasks).path) :
          last' = Did("reload", "done",
                      <<[path |-> Head(tasks).path,
                         preserve_cursor_index |-> Head(tasks).preserve_cursor_index,
                         cursor |-> cursor_index,
                         link_map |-> a.link_map, rows |-> a.rows]>>)
    /\ UNCHANGED <<fs, next_ino, selected, modal, commands>>

\* action_move_up
MoveUp ==
    /\ Command
    /\ LET moved == cursor_index > 0
           row == IF moved THEN Clamp(cursor_index - 1, Len(items)) ELSE table_cursor
       IN  /\ table_cursor' = row
           /\ cursor_index' = row
    /\ commands' = commands + 1
    /\ last' = Did("move_up", "done", <<>>)
    /\ UNCHANGED <<fs, next_ino, current_dir, items, selected, tasks, modal>>

\* action_move_down
MoveDown ==
    /\ Command
    /\ LET moved == cursor_index < Len(items) - 1
           row == IF moved THEN Clamp(cursor_index + 1, Len(items)) ELSE table_cursor
       IN  /\ table_cursor' = row
           /\ cursor_index' = row
    /\ commands' = commands + 1
    /\ last' = Did("move_down", "done", <<>>)
    /\ UNCHANGED <<fs, next_ino, current_dir, items, selected, tasks, modal>>

\* action_go_up
GoUp ==
    /\ Command
    /\ LET parent == Parent(current_dir)
       IN  IF parent # current_dir
           THEN /\ tasks' = Append(tasks, Task(parent, NoIndex))
                /\ last' = Did("go_up", "scheduled", <<>>)
           ELSE /\ tasks' = tasks
                /\ last' = Did("go_up", "noop", <<>>)
    /\ commands' = commands + 1
    /\ UNCHANGED <<fs, next_ino, current_dir, items, cursor_index, selected, table_cursor,
                   modal>>

\* action_enter_dir; items[cursor_index] raises IndexError past the end.
EnterDir ==
    /\ Command
    /\ IF items = <<>>
       THEN /\ tasks' = tasks
            /\ last' = Did("enter_dir", "noop", <<>>)
       ELSE IF cursor_index >= Len(items)
       THEN /\ tasks' = tasks
            /\ last' = Did("enter_dir", "raised", <<>>)
       ELSE LET entry == items[cursor_index + 1]
            IN  IF is_dir(fs, entry)
                THEN /\ tasks' = Append(tasks, Task(entry, NoIndex))
                     /\ last' = Did("enter_dir", "scheduled", <<>>)
                ELSE /\ tasks' = tasks
                     /\ last' = Did("enter_dir", "noop", <<>>)
    /\ commands' = commands + 1
    /\ UNCHANGED <<fs, next_ino, current_dir, items, cursor_index, selected, table_cursor,
                   modal>>

\* A toggle that adds the entry under the cursor and never removes one.
ToggledAddOnly(S, entry_resolved) == S \cup {entry_resolved}

\* Lines 218-223 of action_toggle_select: the selection after the toggle.
Toggled(S, entry_resolved) ==
    IF entry_resolved \in S THEN S \ {entry_resolved} ELSE S \cup {entry_resolved}

\* action_toggle_select
ToggleSelect ==
    /\ Command
    /\ IF items = <<>> \/ cursor_index >= Len(items)
       THEN /\ UNCHANGED <<selected, cursor_index, tasks>>
            /\ last' = Did("toggle_select", "noop", <<>>)
       ELSE LET entry_resolved == Resolve(items[cursor_index + 1])
                cursor == IF cursor_index < Len(items) - 1
                          THEN cursor_index + 1 ELSE cursor_index
            IN  /\ entry_resolved \notin selected => Cardinality(selected) < MaxSelected
                /\ selected' = Toggled(selected, entry_resolved)
                /\ cursor_index' = cursor
                /\ tasks' = Append(tasks, Task(current_dir, cursor))
                /\ last' = Did("toggle_select", "scheduled",
                               <<[entry |-> entry_resolved,
                                  was_selected |-> entry_resolved \in selected,
                                  cursor |-> cursor_index]>>)
    /\ commands' = commands + 1
    /\ UNCHANGED <<fs, next_ino, current_dir, items, table_cursor, modal>>

\* action_delete_link
DeleteLink ==
    /\ Command
    /\ IF items = <<>> \/ cursor_index >= Len(items)
       THEN /\ UNCHANGED <<fs, next_ino, tasks>>
            /\ last' = Did("delete_link", "noop", <<>>)
       ELSE LET entry_to_delete == items[cursor_index + 1]
                s == Sys(fs, next_ino)
                d == IF is_file(fs, entry_to_delete)
                     THEN LET r == Unlink(s, entry_to_delete)
                          IN  [result |-> IF r.ok THEN "deleted" ELSE "error", sys |-> r]
                     ELSE IF is_dir(fs, entry_to_delete)
                     THEN DeleteDirectory(s, entry_to_delete)
                     ELSE [result |-> "refused", sys |-> s]
            IN  /\ fs' = d.sys.fs
                /\ next_ino' = d.sys.next
                /\ tasks' = IF d.result = "deleted"
                            THEN Append(tasks, Task(current_dir,
                                                    IndexAfterDelete(cursor_index, Len(items))))
                            ELSE tasks
                /\ last' = Did("delete_link", d.result,
                               <<[entry |-> entry_to_delete, before |-> fs]>>)
    /\ commands' = commands + 1
    /\ UNCHANGED <<current_dir, items, cursor_index, selected, table_cursor, modal>>

\* action_deploy.  An exception that leaves create_hardlink leaves the
\* handler too, before line 329.
Deploy ==
    /\ Command
    /\ IF selected = {}
       THEN /\ UNCHANGED <<fs, next_ino, selected, tasks>>
            /\ last' = Did("deploy", "noop", <<>>)
       ELSE \E items_to_deploy \in Orders(selected) :
               \E out \in DeployItems(Sys(fs, next_ino), items_to_deploy,
                                      Resolve(current_dir), <<>>) :
                  /\ fs' = out.sys.fs
                  /\ next_ino' = out.sys.next
                  /\ IF out.raised
                     THEN /\ UNCHANGED <<selected, tasks>>
                          /\ last' = Did("deploy", "raised", out.results)
                     ELSE /\ selected' = {}
                          /\ tasks' = Append(tasks, Task(current_dir, cursor_index))
                          /\ last' = Did("deploy", "done", out.results)
    /\ commands' = commands + 1
    /\ UNCHANGED <<current_dir, items, cursor_index, table_cursor, modal>>

\* action_rename: the modal opens when the cursor is on a directory.
Rename ==
    /\ Command
    /\ IF items = <<>> \/ cursor_index >= Len(items)
       THEN /\ modal' = modal
            /\ last' = Did("rename", "noop", <<>>)
       ELSE LET entry == items[cursor_index + 1]
            IN  IF ~is_dir(fs, entry)
                THEN /\ modal' = modal
                     /\ last' = Did("rename", "noop", <<>>)
                ELSE /\ modal' = [kind |-> "rename", old_path |-> entry]
                     /\ last' = Did("rename", "modal", <<>>)
    /\ commands' = commands + 1
    /\ UNCHANGED <<fs, next_ino, current_dir, items, cursor_index, selected, tasks,
                   table_cursor>>

\* action_new_dir: the modal opens.
NewDir ==
    /\ Command
    /\ modal' = [kind |-> "new_dir", old_path |-> Root]
    /\ last' = Did("new_dir", "modal", <<>>)
    /\ commands' = commands + 1
    /\ UNCHANGED <<fs, next_ino, current_dir, items, cursor_index, selected, tasks,
                   table_cursor>>

\* A key reaches the modal: one is up and the session has commands left.
ModalCommand == modal.kind # "none" /\ commands < MaxCommands

\* What the user may type into the modal; NoName is a blank value.
SubmitTexts == {NoName, Nm("k", ""), Nm("b", ""), LongName}

\* A check of the new name that lets every name through.
NameTakenNever(f, new_path) == FALSE

\* new_path.exists() of do_rename and do_create_dir.
NameTaken(f, new_path) == exists(f, new_path)

\* TextInputModalScreen._try_submit with do_rename or do_create_dir.
Submit ==
    /\ ModalCommand
    /\ \E value \in SubmitTexts :
          LET new_path == IF modal.kind = "rename"
                          THEN Join(Parent(modal.old_path), value)
                          ELSE Join(current_dir, value)
              asked == <<[kind |-> modal.kind, value |-> value, new_path |-> new_path]>>
          IN  IF value = NoName
              THEN /\ UNCHANGED <<fs, next_ino, current_dir, items, cursor_index,
                                  table_cursor, modal>>
                   /\ last' = Did("submit", "empty", asked)
              ELSE IF TooLong(new_path)
              THEN \* new_path.exists() raises, outside any try
                   /\ UNCHANGED <<fs, next_ino, current_dir, items, cursor_index,
                                  table_cursor, modal>>
                   /\ last' = Did("submit", "raised", asked)
              ELSE LET s == Sys(fs, next_ino)
                       r == IF NameTaken(fs, new_path) THEN Failed(s)
                            ELSE IF modal.kind = "rename"
                            THEN RenamePath(s, modal.old_path, new_path)
                            ELSE Mkdir(s, new_path)
                       l == load_directory(r.fs, current_dir, cursor_index, cursor_index)
                   IN  /\ fs' = r.fs
                       /\ next_ino' = r.next
                       /\ current_dir' = IF r.ok THEN l.current_dir ELSE current_dir
                       /\ items' = IF r.ok THEN l.items ELSE items
                       /\ cursor_index' = IF r.ok THEN l.cursor_index ELSE cursor_index
                       /\ table_cursor' = IF r.ok THEN Clamp(l.cursor_index, Len(l.items))
                                          ELSE table_cursor
                       /\ modal' = NoModal
                       /\ last' = Did("submit", IF r.ok THEN "done" ELSE "failed", asked)
    /\ commands' = commands + 1
    /\ UNCHANGED <<selected, tasks>>

\* TextInputModalScreen._cancel
Cancel ==
    /\ ModalCommand
    /\ modal' = NoModal
    /\ last' = Did("cancel", "done", <<>>)
    /\ commands' = commands + 1
    /\ UNCHANGED <<fs, next_ino, current_dir, items, cursor_index, selected, tasks,
                   table_cursor>>

\* /a/{f.txt, k/x.txt} and the directory /b.
n_a == Nm("a", "")
n_b == Nm("b", "")
n_k == Nm("k", "")

SessionTree ==
    (Root :> Dir(1)) @@ (<<n_a>> :> Dir(2)) @@ (<<n_a, n_f>> :> File(10))
    @@ (<<n_a, n_k>> :> Dir(3)) @@ (<<n_a, n_k, n_x>> :> File(11)) @@ (<<n_b>> :> Dir(4))

\* What /b may hold when the session starts: nothing, a file named f.txt, or
\* the mirror of /a/k an earlier session deployed, with a link of /a/f.txt
\* deployed into it.
SlotB ==
    { <<>>,
      (<<n_b, n_f>> :> File(20)),
      (<<n_b, n_k>> :> Dir(5)) @@ (<<n_b, n_k, n_x>> :> File(11))
          @@ (<<n_b, n_k, n_f>> :> File(10)) }

SessionTrees == {b @@ SessionTree : b \in SlotB}

\* __init__ and on_mount: the first load_directory(start_dir) has run, for
\* any directory given as start_dir.
Init ==
    /\ fs \in SessionTrees
    /\ next_ino = FirstFreeIno
    /\ \E start_dir \in {p \in DOMAIN fs : is_dir(fs, p)} :
          LET l == load_directory(fs, start_dir, NoIndex, 0)
          IN  /\ current_dir = l.current_dir
              /\ items = l.items
              /\ cursor_index = l.cursor_index
              /\ table_cursor = Clamp(l.cursor_index, Len(l.items))
    /\ selected = {}
    /\ tasks = <<>>
    /\ modal = NoModal
    /\ commands = 0
    /\ last = Idle

Next ==
    \/ RunTask
    \/ MoveUp
    \/ MoveDown
    \/ GoUp
    \/ EnterDir
    \/ ToggleSelect
    \/ DeleteLink
    \/ Deploy
    \/ Rename
    \/ NewDir
    \/ Submit
    \/ Cancel

Spec == Init /\ [][Next]_vars

-----------------------------------------------------------------------------
(* One more command, from any state a session can have come to.            *)

\* A path selected earlier and deleted since.
Vanished == <<n_b, n_ghost>>

Selections(f) ==
    {S \in SUBSET ((DOMAIN f \ {Root}) \cup {Vanished}) : Cardinality(S) <= MaxSelected}

\* The session has browsed to any directory, moved the cursor to any entry,
\* selected any paths, perhaps opened a modal, and its reloads have run.
HandlerInit ==
    /\ fs \in SessionTrees
    /\ next_ino = FirstFreeIno
    /\ current_dir \in {p \in DOMAIN fs : is_dir(fs, p)}
    /\ items = Listing(fs, current_dir)
    /\ cursor_index \in {i \in 0..Len(items) : i < Len(items) \/ i = 0}
    /\ table_cursor = cursor_index
    /\ selected \in Selections(fs)
    /\ tasks = <<>>
    /\ modal \in {NoModal, [kind |-> "new_dir", old_path |-> Root]}
                 \cup {[kind |-> "rename", old_path |-> items[i]]
                       : i \in {k \in 1..Len(items) : k = cursor_index + 1 /\ is_dir(fs, items[k])}}
    /\ commands = MaxCommands - 1
    /\ last = Idle

SpecHandlers == HandlerInit /\ [][Next]_vars

-----------------------------------------------------------------------------
(* Deletions and their reloads, in listings of up to four entries.         *)

\* /b holds an empty directory k, a directory m holding only a second link
\* of /a/f.txt, and the files f.txt and x.txt, x.txt a link of /a/k/x.txt.
CrowdedTree ==
    (<<n_b, n_k>> :> Dir(5)) @@ (<<n_b, Nm("m", "")>> :> Dir(6))
    @@ (<<n_b, Nm("m", ""), n_f>> :> File(10))
    @@ (<<n_b, n_f>> :> File(20)) @@ (<<n_b, n_x>> :> File(11)) @@ SessionTree

DeleteTrees == SessionTrees \cup {CrowdedTree}

\* The session has browsed to any directory and moved the cursor to any
\* entry, and its reloads have run.
DeleteInit ==
    /\ fs \in DeleteTrees
    /\ next_ino = FirstFreeIno
    /\ current_dir \in {p \in DOMAIN fs : is_dir(fs, p)}
    /\ items = Listing(fs, current_dir)
    /\ cursor_index \in {i \in 0..Len(items) : i < Len(items) \/ i = 0}
    /\ table_cursor = cursor_index
    /\ selected = {}
    /\ tasks = <<>>
    /\ modal = NoModal
    /\ commands = 0
    /\ last = Idle

DeleteNext ==
    \/ DeleteLink
    \/ RunTask

SpecDelete == DeleteInit /\ [][DeleteNext]_vars

-----------------------------------------------------------------------------
(* One reload, for any directory asked, any index to preserve and any      *)
(* cursor the reload can meet.                                             *)

MaxCursor == 3

\* Trees in which a name of a directory is met again deeper down: f.txt of
\* /a with a second link in /b and an unrelated f.txt in /a/k; f.txt of /a
\* with one link and /a/k/f.txt linked in /b; a file named a, with two
\* links, inside /b.
ShadowTrees ==
    { (<<n_b, n_f>> :> File(10)) @@ (<<n_a, n_k, n_f>> :> File(12)) @@ SessionTree,
      (<<n_b, n_f>> :> File(12)) @@ (<<n_a, n_k, n_f>> :> File(12)) @@ SessionTree,
      (<<n_b, n_a>> :> File(13)) @@ (<<n_b, Nm("m", "")>> :> File(13)) @@ SessionTree }

ReloadTrees == SessionTrees \cup ShadowTrees

\* load_directory reads neither self.items nor the table; the cursor it
\* meets was set for a listing that may have been longer.
ReloadInit ==
    /\ fs \in ReloadTrees
    /\ next_ino = FirstFreeIno
    /\ current_dir \in {p \in DOMAIN fs : is_dir(fs, p)}
    /\ items = Listing(fs, current_dir)
    /\ cursor_index \in 0..MaxCursor
    /\ table_cursor = Clamp(cursor_index, Len(items))
    /\ selected = {}
    /\ tasks \in {<<Task(path, i)>> :
                    path \in {p \in DOMAIN fs : is_dir(fs, p)} \cup {Vanished},
                    i \in {NoIndex} \cup (0..MaxCursor)}
    /\ modal = NoModal
    /\ commands = 0
    /\ last = Idle

ReloadNext == RunTask

SpecReload == ReloadInit /\ [][ReloadNext]_vars

-----------------------------------------------------------------------------
(* Properties of create_hardlink, read off the record of the call in last. *)

Called == last.op = "create_hardlink"

\* link_path / target_dir_path of the call.
LinkPath == Join(last.destination_dir,
                 IF last.name # NoName THEN last.name ELSE PathName(last.source))

\* The preconditions of lines 33-39 held when the call began.
PreconditionsHeld ==
    exists(last.fs0, last.source) /\ is_dir(last.fs0, last.destination_dir)

FileCall == Called /\ PreconditionsHeld /\ is_file(last.fs0, last.source)

DirCall == Called /\ PreconditionsHeld /\ is_dir(last.fs0, last.source)

\* The name n is taken in directory d of tree f: by a file, a directory or
\* a dangling link.
Taken(f, d, n) == lexists(f, Join(d, n))

\* The counters whose probed name is free in directory d of tree f.
FreeCounters(f, d, n) ==
    {i \in 1..MaxAttempts : ~Taken(f, d, FormatName(n.stem, i, n.suffix))}

Least(S) == CHOOSE i \in S : \A j \in S : i <= j

\* C1: a file source deployed with 'rename' onto a taken name, the names
\* "stem (1)suffix" .. "stem (N-1)suffix" taken and "stem (N)suffix" free for
\* some N in 1..999: the call returns True and the tree gains exactly the
\* link "stem (N)suffix", a link of the source.
C1_RenameTakesFirstFreeName ==
    (/\ FileCall
     /\ last.conflict_strategy = "rename"
     /\ last.env.perms # "raises"
     /\ Taken(last.fs0, last.destination_dir, PathName(LinkPath))
     /\ FreeCounters(last.fs0, last.destination_dir, PathName(LinkPath)) # {})
    => LET n == PathName(LinkPath)
           N == Least(FreeCounters(last.fs0, last.destination_dir, n))
           made == Join(last.destination_dir, FormatName(n.stem, N, n.suffix))
       IN  /\ last.ok
           /\ fs = (made :> last.fs0[last.source]) @@ last.fs0

\* C2: 'overwrite' onto an existing link path or target directory, for a
\* file or a directory source and any destination directory: the call
\* succeeds, every path of the source is still there with the node it had,
\* and the destination holds the source: a link of it, or for a directory
\* source a directory.
C2_OverwriteKeepsSource ==
    (/\ Called
     /\ PreconditionsHeld
     /\ last.conflict_strategy = "overwrite"
     /\ last.env.perms # "raises"
     /\ exists(last.fs0, LinkPath))
    => /\ last.ok
       /\ \A p \in SubTree(last.fs0, last.source) :
             lexists(fs, p) /\ fs[p] = last.fs0[p]
       /\ lexists(fs, LinkPath)
       /\ IF is_file(last.fs0, last.source)
          THEN fs[LinkPath] = last.fs0[last.source]
          ELSE is_dir(fs, LinkPath)

\* C3: 'fail' onto a taken link path (file source) or target directory path
\* (directory source): the call returns False and the tree is as it was.
C3_FailLeavesTree ==
    (/\ Called
     /\ PreconditionsHeld
     /\ last.conflict_strategy = "fail"
     /\ lexists(last.fs0, LinkPath))
    => /\ ~last.ok
       /\ ~last.raised
       /\ fs = last.fs0

\* A file source met a directory with something in it at its link path,
\* under 'fail'.
C3_Witness ==
    /\ FileCall
    /\ last.conflict_strategy = "fail"
    /\ is_dir(last.fs0, LinkPath)
    /\ Children(last.fs0, LinkPath) # {}
    /\ ~last.ok

\* C4: 'skip' onto a taken link path (file source) or target directory path
\* (directory source): the call returns True and the tree is as it was.
C4_SkipSucceedsUntouched ==
    (/\ Called
     /\ PreconditionsHeld
     /\ last.conflict_strategy = "skip"
     /\ lexists(last.fs0, LinkPath))
    => /\ last.ok
       /\ fs = last.fs0

\* C5: any strategy, an existing file source, an existing destination
\* directory, nothing at the link path: the call returns True, the link path
\* carries the inode of the source, and its link count is 2.
C5_FreshLinkCountTwo ==
    (/\ FileCall
     /\ ~lexists(last.fs0, LinkPath))
    => /\ last.ok
       /\ lexists(fs, LinkPath)
       /\ fs[LinkPath].ino = last.fs0[last.source].ino
       /\ st_nlink(fs, LinkPath) = 2

\* The files a call has to link, each with the path it first tries: the
\* source itself, or every file below a directory source.
LinkJobs ==
    IF is_file(last.fs0, last.source) THEN {<<last.source, LinkPath>>}
    ELSE {<<p, LinkPath \o RelativeTo(p, last.source)>>
          : p \in {q \in SubTree(last.fs0, last.source) : is_file(last.fs0, q)}}

\* The tree the call works on: the tree it began with and what arrived
\* meanwhile.
Met == last.fs0 @@ last.env.race

\* C6: 'rename' for a file whose name and whose 999 probed names are all
\* taken, as a file source or as one file of a walk: the call reports a
\* failure and no link of that file is made.
C6_ExhaustionLinksNothing ==
    (/\ Called
     /\ PreconditionsHeld
     /\ last.conflict_strategy = "rename")
    => \A j \in LinkJobs :
          (/\ Taken(Met, Parent(j[2]), PathName(j[2]))
           /\ FreeCounters(Met, Parent(j[2]), PathName(j[2])) = {})
          => /\ ~last.ok
             /\ \A q \in DOMAIN fs \ DOMAIN Met : fs[q] # Met[j[1]]

\* C7: a directory source whose target directory does not exist: every
\* directory of the source is mirrored by a directory that is no link of
\* it, every file by a link of it, at the same relative path, and the call
\* reports no failure.
C7_MirrorsWholeTree ==
    (/\ DirCall
     /\ last.env.perms # "raises"
     /\ ~lexists(last.fs0, LinkPath))
    => /\ last.ok
       /\ \A p \in SubTree(last.fs0, last.source) :
             LET mirror == LinkPath \o RelativeTo(p, last.source)
             IN  /\ lexists(fs, mirror)
                 /\ IF is_dir(last.fs0, p)
                    THEN is_dir(fs, mirror) /\ fs[mirror].ino # last.fs0[p].ino
                    ELSE fs[mirror] = last.fs0[p]

\* The call made every directory of the source at its mirror path and
\* every link it had to make, at the path it first tries.
EverythingMade ==
    /\ \A j \in LinkJobs : lexists(fs, j[2]) /\ fs[j[2]] = last.fs0[j[1]]
    /\ is_dir(last.fs0, last.source) =>
          \A p \in SubTree(last.fs0, last.source) :
             is_dir(last.fs0, p) => is_dir(fs, LinkPath \o RelativeTo(p, last.source))

\* C13: a failure to resolve or to apply the permission rule of a new link
\* never changes the outcome: with a destination outside the source, nothing
\* in the way and every link made, a file source returns True and a walk
\* reports no failure.
C13_PermissionFailureKeepsOutcome ==
    (/\ Called
     /\ PreconditionsHeld
     /\ last.env.perms \in {"apply_failed", "raises"}
     /\ ~IsUnder(last.destination_dir, last.source)
     /\ ~lexists(last.fs0, LinkPath)
     /\ LinkJobs # {}
     /\ EverythingMade)
    => last.ok

\* C14: in the walk of a directory source a failure on one file never stops
\* the walk: no exception leaves it, every file whose destination directory
\* was made and whose link can be made is linked, and the call reports a
\* failure exactly when some directory or link is missing afterwards.
C14_WalkGoesOnPastFailures ==
    (/\ DirCall
     /\ last.env.perms # "raises"
     /\ ~IsUnder(last.destination_dir, last.source)
     /\ ~lexists(last.fs0, LinkPath))
    => /\ ~last.raised
       /\ \A j \in LinkJobs :
             (is_dir(fs, Parent(j[2])) /\ ~TooLong(j[2]))
             => lexists(fs, j[2]) /\ fs[j[2]] = last.fs0[j[1]]
       /\ last.ok <=> EverythingMade

\* C15: a directory source with 'rename' or 'fail' whose target directory
\* path exists: the call returns False with the tree as it was, no directory
\* made and no file linked, and 'rename' ends as 'fail' does on the same call.
C15_TopLevelRenameIsFail ==
    (/\ DirCall
     /\ last.conflict_strategy \in {"rename", "fail"}
     /\ exists(last.fs0, LinkPath))
    => /\ ~last.ok
       /\ ~last.raised
       /\ fs = last.fs0
       /\ \A o \in create_hardlink(Sys(last.fs0, FirstFreeIno), last.source,
                                   last.destination_dir, last.name, "fail", last.env) :
             o.ok = last.ok /\ o.raised = last.raised /\ o.fs = fs

\* 'rename' met a target directory holding a file and left it alone.
C15_Witness ==
    /\ DirCall
    /\ last.conflict_strategy = "rename"
    /\ is_dir(last.fs0, LinkPath)
    /\ Children(last.fs0, LinkPath) # {}
    /\ ~last.ok
    /\ fs = last.fs0

\* C18: when the source does not exist, or the destination directory is
\* missing or is not a directory, the call returns False, whatever the
\* strategy, and the tree is as it was.
C18_PreconditionsFailUntouched ==
    (Called /\ ~PreconditionsHeld)
    => /\ ~last.ok
       /\ ~last.raised
       /\ fs = last.fs0

\* The names 'rename' can give the file of job j within MaxAttempts probes.
NamesWithinAttempts(j) ==
    LET n == PathName(j[2])
    IN  {n} \cup {FormatName(n.stem, i, n.suffix) : i \in 1..MaxAttempts}

\* C16: every call runs to completion, whatever the source, the destination
\* directory (inside the source tree or not) and the strategy: no exception
\* leaves it, and 'rename' probes at most 999 names for a file, so a link it
\* makes carries the name of the file or one of the names counted 1 to 999.
C16_DeployRunsToCompletion ==
    (Called /\ PreconditionsHeld)
    => /\ ~last.raised
       /\ last.conflict_strategy = "rename" =>
             \A j \in LinkJobs :
                \A q \in DOMAIN fs \ DOMAIN Met :
                   (Parent(q) = Parent(j[2]) /\ fs[q] = Met[j[1]])
                   => PathName(q) \in NamesWithinAttempts(j)

\* The mirror of a path of the source under the target directory.
Mirror(p) == LinkPath \o RelativeTo(p, last.source)

\* The directories of the source, the source itself among them.
SourceDirs == {p \in SubTree(last.fs0, last.source) : is_dir(last.fs0, p)}

\* The step of lines 80-90 failed for the mirror of p: the directory could
\* not be made, or its permission rule could not be resolved.
DirStepFailed(p) == ~is_dir(fs, Mirror(p)) \/ last.env.perms = "raises"

C27_SuccessMeansMirrored ==
    (/\ DirCall
     /\ last.ok
     /\ last.conflict_strategy \in {"fail", "rename", "overwrite"})
    => /\ \A j \in LinkJobs : lexists(fs, j[2]) /\ fs[j[2]] = last.fs0[j[1]]
       /\ \A p \in SubTree(last.fs0, last.source) :
             lexists(fs, p) /\ fs[p] = last.fs0[p]

\* The call went past the conflict check of lines 48-74 into the walk.
Walked ==
    /\ DirCall
    /\ ~TooLong(LinkPath)
    /\ exists(last.fs0, LinkPath) => EffectiveDirStrategy(last.conflict_strategy) = "overwrite"

\* The files the call has put into the tree.
MadeFiles == {q \in DOMAIN fs : is_file(fs, q) /\ (q \in DOMAIN last.fs0 => fs[q] # last.fs0[q])}

\* C28: in a directory deployment with any of the four strategies and any
\* destination, also one inside the source, the walk meets no conflict of
\* its own: every file the call puts into the tree is a link of a file of
\* the source under that file's own name, never a probed name, beneath the
\* target directory, and nothing outside the target directory path is
\* removed or replaced.  (A call the top-level check stops puts no file.)
C28_WalkMeetsNoFileConflict ==
    (/\ DirCall
     /\ last.conflict_strategy \in {"fail", "skip", "overwrite", "rename"})
    => /\ \A q \in MadeFiles :
             \E p \in SubTree(last.fs0, last.source) :
                /\ is_file(last.fs0, p)
                /\ fs[q] = last.fs0[p]
                /\ PathName(q) = PathName(p)
                /\ IsUnder(q, LinkPath)
       /\ \A p \in DOMAIN last.fs0 :
             ~IsUnder(p, LinkPath) => lexists(fs, p) /\ fs[p] = last.fs0[p]

\* A directory was deployed with 'rename' into one of its own
\* sub-directories, and the walk linked a file into the mirror of its own
\* output.
C28_Witness ==
    /\ Walked
    /\ last.conflict_strategy = "rename"
    /\ IsUnder(last.destination_dir, last.source)
    /\ \E q \in MadeFiles : IsUnder(q, LinkPath \o RelativeTo(LinkPath, last.source))

-----------------------------------------------------------------------------
(* Properties of the handlers of the browser, as relations between the     *)
(* state a handler starts from and the state it leaves.                    *)

\* The step is the handler op.
Handled(op) == last'.op = op

\* C8: Deploy never clobbers and never silently skips: every path of the
\* tree is there afterwards with the node it had, and a selected path counts
\* as a success only if its turn made a new entry in the current directory:
\* a link of it, or for a directory a new directory.
C8_DeployOnlyAdds ==
    [][Handled("deploy") =>
         /\ \A p \in DOMAIN fs : lexists(fs', p) /\ fs'[p] = fs[p]
         /\ \A i \in DOMAIN last'.results :
               LET r == last'.results[i]
               IN  r.ok =>
                     \E q \in DOMAIN r.after \ DOMAIN r.before :
                        /\ Parent(q) = current_dir
                        /\ IF is_dir(r.before, r.source)
                           THEN is_dir(r.after, q)
                           ELSE r.after[q] = r.before[r.source]]_vars

\* A deploy linked a file whose name was taken in the current directory.
C8_Witness ==
    /\ last.op = "deploy"
    /\ \E i \in DOMAIN last.results :
          LET r == last.results[i]
          IN  /\ r.ok
              /\ is_file(r.before, r.source)
              /\ lexists(r.before, Join(current_dir, PathName(r.source)))

NavigationOps == {"go_up", "enter_dir", "move_up", "move_down", "reload"}

\* C9: GoUp, EnterDir, MoveUp, MoveDown and every reload leave the selection
\* as it is, and a Deploy with a non-empty selection leaves it empty.
C9_SelectionKeptThenCleared ==
    [][/\ last'.op \in NavigationOps => selected' = selected
       /\ Handled("deploy") /\ selected # {} => selected' = {}]_vars

\* The cursor is on an existing directory.
OnDirectory ==
    /\ items # <<>>
    /\ cursor_index < Len(items)
    /\ is_dir(fs, items[cursor_index + 1])

\* C10: DeleteEntry on a directory: holding entries that are all
\* non-directories with more than one link, it is removed with them; empty,
\* it is removed; holding a sub-directory or a file with one link, nothing
\* is removed.
C10_DeleteDirectoryCases ==
    [][Handled("delete_link") /\ OnDirectory =>
         LET entry == items[cursor_index + 1]
             inside == Children(fs, entry)
         IN  /\ (/\ inside # {}
                 /\ \A c \in inside : ~is_dir(fs, c) /\ st_nlink(fs, c) > 1)
                => fs' = Without(fs, inside \cup {entry})
             /\ inside = {} => fs' = Without(fs, {entry})
             /\ (\E c \in inside : is_dir(fs, c) \/ st_nlink(fs, c) = 1)
                => fs' = fs]_vars

\* A directory holding only hardlinked files was deleted with them.
C10_Witness ==
    /\ last.op = "delete_link"
    /\ last.outcome = "deleted"
    /\ is_dir(last.results[1].before, last.results[1].entry)
    /\ Children(last.results[1].before, last.results[1].entry) # {}
    /\ ~lexists(fs, last.results[1].entry)

\* C17: Deploy with a non-empty selection takes every selected path exactly
\* once, so the successes and failures it counts add up to the size of the
\* selection; a path that is gone counts as one failure without a call of
\* the engine, and the others are deployed all the same.  Deploy with an
\* empty selection changes neither the tree nor the directory, the listing,
\* the cursor or the selection.
C17_DeployCountsEverySelected ==
    [][Handled("deploy") =>
         IF selected = {}
         THEN /\ fs' = fs
              /\ UNCHANGED <<current_dir, items, cursor_index, selected, tasks>>
         ELSE LET results == last'.results
              IN  /\ Len(results) = Cardinality(selected)
                  /\ {results[i].source : i \in DOMAIN results} = selected
                  /\ \A i \in DOMAIN results :
                        IF exists(results[i].before, results[i].source)
                        THEN results[i].called
                        ELSE /\ ~results[i].called
                             /\ ~results[i].ok
                             /\ results[i].after = results[i].before]_vars

\* C21: ToggleSelect on a listing with entries flips the membership of the
\* resolved path of the entry under the cursor and of no other path, so that
\* a second toggle of the same entry gives the selection back, and moves the
\* cursor from i to i + 1 unless i is the last index; on an empty listing it
\* changes nothing.
C21_ToggleFlipsOneEntry ==
    [][Handled("toggle_select") =>
         IF items = <<>>
         THEN UNCHANGED <<fs, current_dir, items, cursor_index, selected, tasks>>
         ELSE LET entry == Resolve(items[cursor_index + 1])
              IN  /\ (entry \in selected') # (entry \in selected)
                  /\ selected' \ {entry} = selected \ {entry}
                  /\ Toggled(selected', entry) = selected
                  /\ cursor_index' = IF cursor_index = Len(items) - 1
                                      THEN cursor_index ELSE cursor_index + 1]_vars

\* A toggle took a selected entry that was not the last one out of a
\* selection that holds another path, and moved the cursor on.
C21_Witness ==
    /\ last.op = "toggle_select"
    /\ last.outcome = "scheduled"
    /\ last.results[1].was_selected
    /\ last.results[1].entry \notin selected
    /\ selected # {}
    /\ cursor_index = last.results[1].cursor + 1

\* The step is a reload of the listing.
Reloaded == last.op = "reload"

\* C11: after every reload of the listing, whatever the cursor was, whatever
\* index was to be preserved and however the number of entries changed, the
\* cursor index is at least 0 and less than the number of entries when the
\* listing has entries, and 0 when it has none.
C11_ReloadKeepsCursorInListing ==
    Reloaded =>
        /\ items # <<>> => 0 <= cursor_index /\ cursor_index < Len(items)
        /\ items = <<>> => cursor_index = 0

\* A reload met a cursor and an index to preserve that both lie past the
\* end of the new listing.
C11_Witness ==
    /\ Reloaded
    /\ last.results[1].cursor >= Len(items)
    /\ last.results[1].preserve_cursor_index >= Len(items)
    /\ items # <<>>
    /\ cursor_index = 0

\* The handlers reached by the keys of the browser that read or change the
\* directory, the listing or the selection.
CommandOps ==
    {"go_up", "enter_dir", "toggle_select", "delete_link", "deploy", "rename", "new_dir"}

\* C12: no command handler (go_up, enter_dir, toggle_select, delete, deploy,
\* rename, new_dir) starts while a reload scheduled by an earlier command is
\* still to be applied: every command sees the directory, entries and cursor
\* the command before it produced.
C12_NoCommandBeforeReload ==
    [][last'.op \in CommandOps => tasks = <<>>]_vars

\* The directory the commands issued so far lead to once every scheduled
\* reload has run: reloads run in the order they were scheduled and each
\* makes its path the current directory.
Destined == IF tasks = <<>> THEN current_dir ELSE tasks[Len(tasks)].path

\* C29: navigation commands take effect in issue order: each GoUp, EnterDir
\* and ToggleSelect acts on the directory the commands before it lead to, so
\* that once all scheduled reloads have run the current directory is the
\* result of applying the commands one after another: GoUp leads to the
\* parent of that directory (k GoUp in a row to the k-th ancestor), EnterDir
\* to that directory or one of its sub-directories, and the reload of a
\* ToggleSelect leads to that same directory, never back to one an earlier
\* command left.
C29_NavigationInIssueOrder ==
    [][/\ Handled("go_up") => Destined' = Parent(Destined)
       /\ Handled("enter_dir") => Destined' = Destined \/ Parent(Destined') = Destined
       /\ Handled("toggle_select") => Destined' = Destined]_vars

\* The reload that runs is the one the GoUp just before it scheduled.
ReloadOfGoUp ==
    /\ last.op = "go_up"
    /\ last.outcome = "scheduled"
    /\ Len(tasks) = 1
    /\ Handled("reload")

\* C19 as amended: GoUp away from the root: when the reload it scheduled
\* runs, the current directory is the parent, the listing is the listing of
\* the parent, and the cursor index is what it was when it is an index of
\* that listing and 0 when it is not.  GoUp at the root changes nothing.
C19_GoUpKeepsCursorInRange ==
    [][/\ (Handled("go_up") /\ current_dir = Root)
          => UNCHANGED <<fs, current_dir, items, cursor_index, selected, tasks>>
       /\ ReloadOfGoUp
          => /\ current_dir' = Parent(current_dir)
             /\ items' = Listing(fs, Parent(current_dir))
             /\ cursor_index' = IF cursor_index < Len(items') THEN cursor_index ELSE 0]_vars

\* A GoUp to the root was reloaded and the cursor is still on the second
\* entry.
C19_Witness ==
    /\ Reloaded
    /\ last.results[1].path = Root
    /\ last.results[1].preserve_cursor_index = NoIndex
    /\ current_dir = Root
    /\ last.results[1].cursor = 1
    /\ cursor_index = 1

\* C19 as stated: GoUp away from the root: when the reload it scheduled
\* runs, the current directory is the parent, the listing is the listing of
\* the parent and the cursor index is 0.  GoUp at the root changes nothing.
C19_GoUpResetsCursor ==
    [][/\ (Handled("go_up") /\ current_dir = Root)
          => UNCHANGED <<fs, current_dir, items, cursor_index, selected, tasks>>
       /\ ReloadOfGoUp
          => /\ current_dir' = Parent(current_dir)
             /\ items' = Listing(fs, Parent(current_dir))
             /\ cursor_index' = 0]_vars

\* The step is the reload a successful deletion scheduled, run before any
\* other command.
ReloadOfDelete ==
    /\ last.op = "delete_link"
    /\ last.outcome = "deleted"
    /\ Len(tasks) = 1
    /\ Handled("reload")

\* C23: after a successful DeleteEntry with the cursor at index i of a
\* listing of n entries, once the listing is reloaded the cursor index is i
\* when i < n - 1, i - 1 when i = n - 1 and n > 1, and 0 when n = 1; it is
\* an index of the new listing whenever that listing has entries.
C23_CursorAfterDelete ==
    [][ReloadOfDelete
       => /\ cursor_index' = IF cursor_index < Len(items) - 1 THEN cursor_index
                             ELSE IF Len(items) > 1 THEN cursor_index - 1
                             ELSE 0
          /\ items' # <<>> => 0 <= cursor_index' /\ cursor_index' < Len(items')]_vars

\* The last of four entries was deleted and the reload put the cursor on
\* the entry before it.
C23_Witness ==
    /\ Reloaded
    /\ last.results[1].cursor = 3
    /\ last.results[1].preserve_cursor_index = 2
    /\ Len(items) = 3
    /\ cursor_index = 2

\* C24: RenameDir and CreateDir fail whenever the destination name exists;
\* one that failed has created, renamed and removed nothing and has left the
\* current directory, the cursor and the selection as they were; RenameDir
\* is not started on an empty listing or with the cursor on an entry that
\* is not a directory.
C24_TakenNameFailsUntouched ==
    [][/\ (Handled("submit") /\ last'.outcome # "empty")
          => /\ exists(fs, last'.results[1].new_path) => last'.outcome = "failed"
             /\ last'.outcome = "failed"
                => /\ fs' = fs
                   /\ UNCHANGED <<current_dir, items, cursor_index, selected>>
       /\ (Handled("rename")
           /\ (IF items = <<>> THEN TRUE ELSE ~is_dir(fs, items[cursor_index + 1])))
          => /\ last'.outcome = "noop"
             /\ UNCHANGED <<fs, modal>>]_vars

\* A directory was to be renamed to the name of an empty directory beside
\* it; the rename failed and both are still there.
C24_Witness ==
    /\ last.op = "submit"
    /\ last.outcome = "failed"
    /\ last.results[1].kind = "rename"
    /\ is_dir(fs, last.results[1].new_path)
    /\ Children(fs, last.results[1].new_path) = {}
    /\ \E p \in DOMAIN fs :
          /\ is_dir(fs, p)
          /\ p # last.results[1].new_path
          /\ p # Root
          /\ Parent(p) = Parent(last.results[1].new_path)

\* C25: while the modal is up, Submit of any text and Cancel each close it
\* and return the session to browsing; Cancel changes neither the tree nor
\* the current directory, the cursor or the selection.
C25_SubmitAndCancelCloseModal ==
    [][/\ Handled("submit") => modal' = NoModal
       /\ Handled("cancel")
          => /\ modal' = NoModal
             /\ UNCHANGED <<fs, current_dir, items, cursor_index, selected>>]_vars

\* C26: in every state of a session, also between a command and the reload
\* it scheduled, a listing with entries has the cursor on one of them, and
\* no handler has read items[cursor_index] out of range.
C26_CursorAlwaysInListing ==
    /\ items # <<>> => 0 <= cursor_index /\ cursor_index < Len(items)
    /\ last.op = "enter_dir" => last.outcome # "raised"

\* The last entry of a listing was deleted and the reload is still to run:
\* the cursor is on the entry that is gone.
C26_Witness ==
    /\ last.op = "delete_link"
    /\ last.outcome = "deleted"
    /\ tasks # <<>>
    /\ Len(items) >= 2
    /\ cursor_index = Len(items) - 1
    /\ ~lexists(fs, items[cursor_index + 1])

\* The entry is not a directory and has more than one link.
OwnLinks(f, entry) == ~is_dir(f, entry) /\ st_nlink(f, entry) > 1

\* C20: in the listing a reload produces, an entry is marked as a hardlink,
\* in its row and in link_map, exactly when it is not a directory and its
\* own link count is more than 1: never a directory, and whatever the
\* sub-directories hold.
C20_AnnotationIsOwnLinkCount ==
    Reloaded =>
        \A i \in DOMAIN items :
            /\ last.results[1].rows[i] = "Hardlink" <=> OwnLinks(fs, items[i])
            /\ last.results[1].link_map[PathName(items[i])] <=> OwnLinks(fs, items[i])

====
